---- MODULE Spec2Model ----
(***************************************************************************)
(* A model of the two animation programs of the repository:                *)
(*   bevy-game       Sprite / BevyGame (free bounce, target seeking)       *)
(*   rust-wasm-game  Ball / GameState / Game (requestAnimationFrame loop)  *)
(*                                                                         *)
(* Numbers.  The programs compute in f64; the model computes in fixed      *)
(* point.  A length is a whole number of 1/25 pixel (Px), a time a whole   *)
(* number of milliseconds, an angle a whole number of milliradians, a      *)
(* sprite velocity a whole number of pixels per second.  With the default  *)
(* velocities (multiples of 10 px/s) and the steps used here (0, 16 and    *)
(* 100 ms) every free-mode displacement is a whole number of units, so     *)
(* free motion is exact; the seek step divides by a distance and is        *)
(* truncated to the unit (an error below 0.04 px per axis and tick).       *)
(***************************************************************************)
EXTENDS Integers, Sequences, FiniteSets, TLC

VARIABLES
    sprites,    \* BevyGame.sprites: a sequence of Sprite records
    time,       \* BevyGame.time, ms
    canvasW,    \* canvas.width() of the bevy-game canvas, units
    canvasH,    \* canvas.height(), units
    nops,       \* operations performed so far (bounds the exploration)
    prev,       \* history: sprites before the last operation
    last,       \* history: the last operation and its step
    ball,       \* GameState.ball
    last_frame_time,  \* GameState.last_frame_time, ms
    ballW,      \* canvas.width() of the rust-wasm-game canvas, units
    ballH,      \* canvas.height(), units
    now,        \* the host's clock, ms
    frameTime,  \* the timestamp of the animation frame being delivered
    pending,    \* game_loop callbacks requested for the next frame
    running,    \* callbacks of the current frame still to be called
    listeners,  \* click listeners registered on the canvas
    starts,     \* calls of Game::start so far
    frames,     \* animation frames delivered so far
    crashed,    \* a panic left GameState's RefCell mutably borrowed
    leaked,     \* a panic left a shared borrow of the RefCell outstanding
    passes,     \* history: update passes run in the current frame
    ballPrev,   \* history: the ball before the last update pass
    ballLast    \* history: the last operation of the ball game

gameVars == <<sprites, time, canvasW, canvasH, nops, prev, last>>
ballVars == <<ball, last_frame_time, ballW, ballH, now, frameTime, pending,
              running, listeners, starts, frames, crashed, leaked, passes,
              ballPrev, ballLast>>
vars == <<sprites, time, canvasW, canvasH, nops, prev, last,
          ball, last_frame_time, ballW, ballH, now, frameTime, pending,
          running, listeners, starts, frames, crashed, leaked, passes,
          ballPrev, ballLast>>

---------------------------------------------------------------------------
(* Arithmetic *)

Px(p) == 25 * p

Max(a, b) == IF a >= b THEN a ELSE b
Min(a, b) == IF a <= b THEN a ELSE b
Abs(a) == IF a >= 0 THEN a ELSE -a

\* Division rounding toward zero.
Div(a, b) == IF a >= 0 THEN a \div b ELSE -((-a) \div b)

RECURSIVE SqrtSearch(_, _, _)
SqrtSearch(n, lo, hi) ==
    IF lo >= hi THEN lo
    ELSE LET mid == (lo + hi + 1) \div 2
         IN  IF mid * mid <= n THEN SqrtSearch(n, mid, hi)
             ELSE SqrtSearch(n, lo, mid - 1)

\* f64::sqrt, to the unit: the largest r with r*r <= n (n < 2^31).
Sqrt(n) == SqrtSearch(n, 0, 46340)

---------------------------------------------------------------------------
(* bevy-game: constants of the source *)

tolerance == 5          \* pixels
speed == 100            \* pixels per second (seeking)
FrameDt == 16           \* let dt = 0.016, in ms
RotationRate == 2       \* radians per second

\* A displacement over half of the step.
MoveHalved(v, dt) == Div(v * dt, 80)

\* A displacement v * dt (v in px/s, dt in ms), in units: 25 / 1000 a ms.
Move(v, dt) == Div(v * dt, 40)

\* dt * 2.0, in milliradians.
RotStep(dt) == RotationRate * dt

---------------------------------------------------------------------------
(* bevy-game: Sprite *)

None == <<>>
Some(t) == <<t>>

Target(tx, ty, fnt) == [x |-> tx, y |-> ty, find_new_target |-> fnt]

SpriteNewWithTarget(x, y, vx, vy, size, target) ==
    [x |-> Px(x), y |-> Px(y), vx |-> vx, vy |-> vy, size |-> Px(size),
     rotation |-> 0, target |-> target]

SpriteNew(x, y, vx, vy, size) == SpriteNewWithTarget(x, y, vx, vy, size, None)

\* self.size/2.0
Half(s) == Div(s.size, 2)

\* v.max(lo).min(hi)
MaxMin(v, lo, hi) == Min(Max(v, lo), hi)

\* A bounce that loses half of the speed.
BounceDamped(v) == -Div(v, 2)

\* The velocity component after a bounce: self.vx *= -1.0
Bounce(v) == -v

\* The test of one axis with strict comparisons: a touch is no bounce.
AtEdgeStrict(p, half, dim) == p < half \/ p > dim - half

\* "Bounce off edges": the test of one axis, on the integrated coordinate.
AtEdge(p, half, dim) == p <= half \/ p >= dim - half

\* Sprite::update
SpriteUpdate(s, dt, cw, ch) ==
    IF s.target = None
    THEN LET x1 == s.x + Move(s.vx, dt)
             y1 == s.y + Move(s.vy, dt)
             bx == AtEdge(x1, Half(s), cw)
             by == AtEdge(y1, Half(s), ch)
         IN  [s EXCEPT
                !.x = IF bx THEN MaxMin(x1, Half(s), cw - Half(s)) ELSE x1,
                !.vx = IF bx THEN Bounce(s.vx) ELSE s.vx,
                !.y = IF by THEN MaxMin(y1, Half(s), ch - Half(s)) ELSE y1,
                !.vy = IF by THEN Bounce(s.vy) ELSE s.vy,
                !.rotation = @ + RotStep(dt)]
    ELSE [s EXCEPT !.rotation = @ + RotStep(dt)]

---------------------------------------------------------------------------
(* bevy-game: BevyGame *)

CreateDefaultSprites ==
    << SpriteNewWithTarget(200, 150, 120, 80, 40,
                           Some(Target(Px(600), Px(400), TRUE))),
       SpriteNewWithTarget(400, 300, -100, 150, 30,
                           Some(Target(Px(150), Px(100), FALSE))),
       SpriteNew(100, 400, 90, -120, 50) >>

\* The squared distance from a sprite to a target point.
Dist2(s, t) == (t.x - s.x) * (t.x - s.x) + (t.y - s.y) * (t.y - s.y)

\* distance <= tolerance, compared on the squares (exact).
Reached(s, t) == Dist2(s, t) <= Px(tolerance) * Px(tolerance)

\* A random coordinate over the whole dimension, the size not taken off.
RandomCoordWide(r, s, dim) == Div(r * dim, 1000) + Half(s)

\* js_sys::Math::random() * (dim - size) + size / 2, random = r / 1000.
RandomCoord(r, s, dim) == Div(r * (dim - s.size), 1000) + Half(s)

\* "Find a new random target"
NewTarget(s, cw, ch, rx, ry) ==
    Some(Target(RandomCoord(rx, s, cw), RandomCoord(ry, s, ch), TRUE))

\* A seek step with the direction taken from the target to the sprite.
SeekMoveAway(s, t, dt) ==
    LET dx == s.x - t.x
        dy == s.y - t.y
        distance == Sqrt(dx * dx + dy * dy)
        len == Move(speed, dt)
    IN  [s EXCEPT !.x = @ + Div(dx * len, distance),
                  !.y = @ + Div(dy * len, distance)]

\* A seek step that also steers: the velocity is set toward the target.
SeekMoveSteer(s, t, dt) ==
    LET dx == t.x - s.x
        dy == t.y - s.y
        distance == Sqrt(dx * dx + dy * dy)
        len == Move(speed, dt)
    IN  [s EXCEPT !.x = @ + Div(dx * len, distance),
                  !.y = @ + Div(dy * len, distance),
                  !.vx = Div(dx * speed, distance),
                  !.vy = Div(dy * speed, distance)]

\* "Move towards target": (dx / distance) * speed * dt on each axis.
SeekMove(s, t, dt) ==
    LET dx == t.x - s.x
        dy == t.y - s.y
        distance == Sqrt(dx * dx + dy * dy)
        len == Move(speed, dt)
    IN  [s EXCEPT !.x = @ + Div(dx * len, distance),
                  !.y = @ + Div(dy * len, distance)]

\* The update loop without its else branch: a sprite with no target rests.
SeekOrRest(s, dt, cw, ch, rx, ry) ==
    IF s.target # None
    THEN LET t == s.target[1]
         IN  IF Reached(s, t)
             THEN IF t.find_new_target
                  THEN [s EXCEPT !.target = NewTarget(s, cw, ch, rx, ry)]
                  ELSE [s EXCEPT !.target = None]
             ELSE SeekMove(s, t, dt)
    ELSE s

\* The update loop with find_new_target not looked at: every reached target
\* is cleared.
SeekOrClear(s, dt, cw, ch, rx, ry) ==
    IF s.target # None
    THEN LET t == s.target[1]
         IN  IF Reached(s, t)
             THEN [s EXCEPT !.target = None]
             ELSE SeekMove(s, t, dt)
    ELSE SpriteUpdate(s, dt, cw, ch)

\* The `if let Some(target)` / else of the update loop.
SeekOrUpdate(s, dt, cw, ch, rx, ry) ==
    IF s.target # None
    THEN LET t == s.target[1]
         IN  IF Reached(s, t)
             THEN IF t.find_new_target
                  THEN [s EXCEPT !.target = NewTarget(s, cw, ch, rx, ry)]
                  ELSE [s EXCEPT !.target = None]
             ELSE SeekMove(s, t, dt)
    ELSE SpriteUpdate(s, dt, cw, ch)

\* A rotation step for every sprite, with or without a target.
RotateAlways(s, dt) == [s EXCEPT !.rotation = @ + RotStep(dt)]

\* "Continue rotating sprites (for sprites with targets, this is done here)"
RotateSeeking(s, dt) ==
    IF s.target # None THEN [s EXCEPT !.rotation = @ + RotStep(dt)] ELSE s

\* The update loop without its final clamp.
KeepAsIs(s, cw, ch) == s

\* "Keep sprites within bounds"
KeepWithinBounds(s, cw, ch) ==
    [s EXCEPT !.x = MaxMin(s.x, Half(s), cw - Half(s)),
              !.y = MaxMin(s.y, Half(s), ch - Half(s))]

\* One sprite's pass through the update loop of update_and_render.
TickSprite(s, cw, ch, rx, ry) ==
    KeepWithinBounds(
        RotateSeeking(SeekOrUpdate(s, FrameDt, cw, ch, rx, ry), FrameDt),
        cw, ch)

---------------------------------------------------------------------------
(* Inputs of the exploration *)

MaxOps == 5         \* operations in one run of Spec
MaxTicks == 460     \* frames in one run of SeekSpec

\* Canvas sizes (pixels): the page's, a small one, one that leaves the
\* second sprite's target outside the arena, one smaller than a sprite.
CanvasSizes == { <<800, 600>>, <<170, 120>>, <<100, 100>>, <<40, 40>> }

\* Values of Math.random(), in thousandths: 0 <= r < 1.
RandSet == {0, 500, 999}

\* Consecutive updates of one sprite looked at from a state.
MaxSteps == 3

\* Steps given to update_sprites and advance_time, ms.
DtSet == {0, 16, 100}

---------------------------------------------------------------------------
(* bevy-game: the state machine *)

GameInit ==
    /\ sprites = CreateDefaultSprites
    /\ time = 0
    /\ \E c \in CanvasSizes : canvasW = Px(c[1]) /\ canvasH = Px(c[2])
    /\ nops = 0
    /\ prev = CreateDefaultSprites
    /\ last = [op |-> "new", dt |-> 0]

\* render_frame -> update_and_render: the time step and the update loop
\* (drawing changes no state).
RenderFrame(limit) ==
    /\ nops < limit
    /\ \E rx \in RandSet, ry \in RandSet :
         sprites' = [i \in DOMAIN sprites |->
                        TickSprite(sprites[i], canvasW, canvasH, rx, ry)]
    /\ time' = time + FrameDt
    /\ prev' = sprites
    /\ last' = [op |-> "render_frame", dt |-> FrameDt]
    /\ nops' = nops + 1
    /\ UNCHANGED <<canvasW, canvasH>>
    /\ UNCHANGED ballVars

\* update_sprites(dt)
UpdateSprites(dt) ==
    /\ nops < MaxOps
    /\ sprites' = [i \in DOMAIN sprites |->
                      SpriteUpdate(sprites[i], dt, canvasW, canvasH)]
    /\ prev' = sprites
    /\ last' = [op |-> "update_sprites", dt |-> dt]
    /\ nops' = nops + 1
    /\ UNCHANGED <<time, canvasW, canvasH>>
    /\ UNCHANGED ballVars

\* advance_time with an assignment in place of the accumulation.
AdvanceTimeSet(dt) ==
    /\ nops < MaxOps
    /\ time' = dt
    /\ prev' = sprites
    /\ last' = [op |-> "advance_time", dt |-> dt]
    /\ nops' = nops + 1
    /\ UNCHANGED <<sprites, canvasW, canvasH>>
    /\ UNCHANGED ballVars

\* advance_time(dt)
AdvanceTime(dt) ==
    /\ nops < MaxOps
    /\ time' = time + dt
    /\ prev' = sprites
    /\ last' = [op |-> "advance_time", dt |-> dt]
    /\ nops' = nops + 1
    /\ UNCHANGED <<sprites, canvasW, canvasH>>
    /\ UNCHANGED ballVars

\* clear_sprites
ClearSprites ==
    /\ nops < MaxOps
    /\ sprites # <<>>
    /\ sprites' = <<>>
    /\ prev' = sprites
    /\ last' = [op |-> "clear_sprites", dt |-> 0]
    /\ nops' = nops + 1
    /\ UNCHANGED <<time, canvasW, canvasH>>
    /\ UNCHANGED ballVars

\* The page resizes the canvas between two calls.
Resize(c) ==
    /\ nops < MaxOps
    /\ <<canvasW, canvasH>> # <<Px(c[1]), Px(c[2])>>
    /\ canvasW' = Px(c[1])
    /\ canvasH' = Px(c[2])
    /\ prev' = sprites
    /\ last' = [op |-> "resize", dt |-> 0]
    /\ nops' = nops + 1
    /\ UNCHANGED <<sprites, time>>
    /\ UNCHANGED ballVars

---------------------------------------------------------------------------
(* rust-wasm-game: Ball and GameState *)

FallbackDt == 16        \* 0.016 // ~60fps fallback, in ms

\* Ball::new; velocities in thousandths of a pixel per second.
BallNew(x, y) ==
    [x |-> x, y |-> y, velocity_x |-> 150 * 1000, velocity_y |-> 100 * 1000,
     radius |-> Px(20)]

\* A displacement velocity * delta_time, in units: 25 / 1000000 a ms.
BallMove(v, dt) == Div(v * dt, 40000)

\* f64::clamp(min, max) panics when min > max.
ClampPanics(lo, hi) == lo > hi

\* Ball::update panics in one of its two clamps: the canvas is narrower or
\* lower than the ball's diameter.
BallUpdatePanics(b, cw, ch) ==
    \/ ClampPanics(b.radius, cw - b.radius)
    \/ ClampPanics(b.radius, ch - b.radius)

\* Ball::update without its two clamps.
BallUpdateUnclamped(b, dt, cw, ch) ==
    LET x1 == b.x + BallMove(b.velocity_x, dt)
        y1 == b.y + BallMove(b.velocity_y, dt)
        bx == x1 + b.radius > cw \/ x1 - b.radius < 0
        by == y1 + b.radius > ch \/ y1 - b.radius < 0
    IN  [b EXCEPT
           !.velocity_x = IF bx THEN -b.velocity_x ELSE b.velocity_x,
           !.velocity_y = IF by THEN -b.velocity_y ELSE b.velocity_y,
           !.x = x1,
           !.y = y1]

\* Ball::update: the ball it leaves.  A clamp that panics ends the call
\* there: the coordinates integrated and the velocities negated before it
\* stay, the clamps from it on are not applied.
BallUpdate(b, dt, cw, ch) ==
    LET x1 == b.x + BallMove(b.velocity_x, dt)
        y1 == b.y + BallMove(b.velocity_y, dt)
        bx == x1 + b.radius > cw \/ x1 - b.radius < 0
        by == y1 + b.radius > ch \/ y1 - b.radius < 0
        px == ClampPanics(b.radius, cw - b.radius)
        py == px \/ ClampPanics(b.radius, ch - b.radius)
    IN  [b EXCEPT
           !.velocity_x = IF bx THEN -b.velocity_x ELSE b.velocity_x,
           !.velocity_y = IF by THEN -b.velocity_y ELSE b.velocity_y,
           !.x = IF px THEN x1 ELSE MaxMin(x1, b.radius, cw - b.radius),
           !.y = IF py THEN y1 ELSE MaxMin(y1, b.radius, ch - b.radius)]

ClickSpeed == 200       \* let speed = 200.0, pixels per second

\* A redirection away from the point.
RedirectAway(b, tx, ty) ==
    LET dx == b.x - tx
        dy == b.y - ty
        distance == Sqrt(dx * dx + dy * dy)
    IN  IF distance > 0
        THEN [b EXCEPT
                !.velocity_x = Div(dx * (ClickSpeed * 1000), distance),
                !.velocity_y = Div(dy * (ClickSpeed * 1000), distance)]
        ELSE b

\* Ball::redirect_towards: (dx / distance) * speed on each axis.
RedirectTowards(b, tx, ty) ==
    LET dx == tx - b.x
        dy == ty - b.y
        distance == Sqrt(dx * dx + dy * dy)
    IN  IF distance > 0
        THEN [b EXCEPT
                !.velocity_x = Div(dx * (ClickSpeed * 1000), distance),
                !.velocity_y = Div(dy * (ClickSpeed * 1000), distance)]
        ELSE b

\* RefCell::borrow panics while a mutable borrow is outstanding.
BorrowFails(mut) == mut

\* RefCell::borrow_mut panics while any borrow is outstanding.
BorrowMutFails(shared, mut) == shared > 0 \/ mut

\* A delta_time without the first-frame fallback.
DeltaTimeNoFallback(lft, current_time) == current_time - lft

\* A delta_time that is the fixed step on every tick.
DeltaTimeFixed(lft, current_time) == FallbackDt

\* The delta_time GameState::update computes.
DeltaTime(lft, current_time) ==
    IF lft = 0 THEN FallbackDt ELSE current_time - lft

---------------------------------------------------------------------------
(* rust-wasm-game: inputs of the exploration *)

MaxStarts == 2      \* calls of Game::start in one run
MaxFrames == 8      \* animation frames in one run

\* Canvas sizes (pixels): two that hold the ball, one narrower and lower
\* than its diameter of 40.
BallCanvasSizes == { <<200, 150>>, <<60, 50>>, <<30, 30>> }

\* Points clicked on the canvas (pixels from its corner), and the calls of
\* GameState's methods in one run of StateSpec.
ClickPoints == { <<10, 140>>, <<190, 10>> }
MaxCalls == 3

\* What a step that is no update pass leaves in the history.
BallNote(op) ==
    [op |-> op, first |-> FALSE, dt |-> 0, lft |-> 0, panic |-> FALSE,
     trace |-> <<>>, cx |-> 0, cy |-> 0]

\* The clock when the page is loaded, and the time between two frames, ms.
StartTimes == {1000}
FrameDeltas == {16, 32}

---------------------------------------------------------------------------
(* rust-wasm-game: the state machine *)

\* Game::new -> GameState::new
BallInit ==
    /\ \E c \in BallCanvasSizes :
         /\ ballW = Px(c[1])
         /\ ballH = Px(c[2])
         /\ ball = BallNew(Div(Px(c[1]), 2), Div(Px(c[2]), 2))
         /\ ballPrev = BallNew(Div(Px(c[1]), 2), Div(Px(c[2]), 2))
    /\ last_frame_time = 0
    /\ now \in StartTimes
    /\ frameTime = 0
    /\ pending = 0
    /\ running = 0
    /\ listeners = 0
    /\ starts = 0
    /\ frames = 0
    /\ crashed = FALSE
    /\ leaked = FALSE
    /\ passes = 0
    /\ ballLast = BallNote("new")

\* Game::start: one more click listener, one more game_loop closure, and
\* its first request_animation_frame.  There is no test of a running loop.
\* With the RefCell left borrowed by a panic, state.borrow() panics before
\* the listener is added.
Start ==
    /\ running = 0
    /\ starts < MaxStarts
    /\ starts' = starts + 1
    /\ listeners' = IF BorrowFails(crashed) THEN listeners ELSE listeners + 1
    /\ pending' = IF BorrowFails(crashed) THEN pending ELSE pending + 1
    /\ ballLast' =
         BallNote(IF BorrowFails(crashed) THEN "start panic" ELSE "start")
    /\ UNCHANGED <<ball, last_frame_time, ballW, ballH, now, frameTime,
                   running, frames, crashed, leaked, passes, ballPrev>>
    /\ UNCHANGED gameVars

\* The host begins an animation frame: every callback requested so far is
\* due, with the frame's timestamp.
BeginFrame(d) ==
    /\ running = 0
    /\ pending > 0
    /\ frames < MaxFrames
    /\ now' = now + d
    /\ frameTime' = now + d
    /\ running' = pending
    /\ pending' = 0
    /\ frames' = frames + 1
    /\ passes' = 0
    /\ ballLast' = BallNote("frame")
    /\ UNCHANGED <<ball, last_frame_time, ballW, ballH, listeners, starts,
                   crashed, leaked, ballPrev>>
    /\ UNCHANGED gameVars

\* The steps of one call of the game_loop closure, in the order they run:
\* GameState::update is Ball::update, clear_rect, Ball::render; the
\* closure then requests the next frame.  A panic ends the call.
LoopTrace(panics) ==
    IF panics THEN <<"ball.update">>
    ELSE <<"ball.update", "clear_rect", "ball.render",
           "request_animation_frame">>

\* The host calls one game_loop closure: GameState::update(time), then
\* request_animation_frame for the next frame.  A panic in Ball::update
\* ends the closure before the request and leaves the RefCell mutably
\* borrowed; with a borrow left outstanding borrow_mut panics at the head
\* of every call.
GameLoop ==
    /\ running > 0
    /\ running' = running - 1
    /\ IF BorrowMutFails(IF leaked THEN 1 ELSE 0, crashed)
       THEN /\ ballLast' = BallNote("borrow_mut panic")
            /\ UNCHANGED <<ball, last_frame_time, pending, crashed, passes,
                           ballPrev>>
       ELSE LET dt == DeltaTime(last_frame_time, frameTime)
                panics == BallUpdatePanics(ball, ballW, ballH)
            IN  /\ ball' = BallUpdate(ball, dt, ballW, ballH)
                /\ last_frame_time' = frameTime
                /\ pending' = IF panics THEN pending ELSE pending + 1
                /\ crashed' = panics
                /\ passes' = passes + 1
                /\ ballPrev' = ball
                /\ ballLast' = [op |-> "update",
                                first |-> (last_frame_time = 0),
                                dt |-> dt, lft |-> last_frame_time,
                                panic |-> panics,
                                trace |-> LoopTrace(panics),
                                cx |-> 0, cy |-> 0]
    /\ UNCHANGED <<ballW, ballH, now, frameTime, listeners, starts, frames,
                   leaked>>
    /\ UNCHANGED gameVars

\* The page resizes the canvas of the ball game between two frames.
BallResize(c) ==
    /\ running = 0
    /\ <<ballW, ballH>> # <<Px(c[1]), Px(c[2])>>
    /\ ballW' = Px(c[1])
    /\ ballH' = Px(c[2])
    /\ ballLast' = BallNote("resize")
    /\ UNCHANGED <<ball, last_frame_time, now, frameTime, pending, running,
                   listeners, starts, frames, crashed, leaked, passes,
                   ballPrev>>
    /\ UNCHANGED gameVars

\* A click on the canvas: the click closure of every listener.  It takes
\* click_state.borrow() to read the canvas, a temporary of a `let` with a
\* borrow of its field, which lives to the end of the closure, and with it
\* outstanding calls click_state.borrow_mut().handle_click(x, y).  A panic
\* leaves the borrows taken so far outstanding.
Click(p) ==
    /\ running = 0
    /\ listeners > 0
    /\ LET held == IF BorrowFails(crashed) THEN 0 ELSE 1
           panics ==
               \/ BorrowFails(crashed)
               \/ BorrowMutFails((IF leaked THEN 1 ELSE 0) + held, crashed)
       IN  /\ ball' = IF panics THEN ball
                      ELSE RedirectTowards(ball, p[1], p[2])
           /\ leaked' = (leaked \/ (panics /\ held > 0))
           /\ ballLast' = [BallNote("click") EXCEPT
                             !.panic = panics, !.lft = last_frame_time,
                             !.cx = p[1], !.cy = p[2]]
    /\ ballPrev' = ball
    /\ UNCHANGED <<last_frame_time, ballW, ballH, now, frameTime, pending,
                   running, listeners, starts, frames, crashed, passes>>
    /\ UNCHANGED gameVars

\* The points of a click, in units: those of ClickPoints and the ball's own
\* position.
ClickTargets ==
    { <<Px(c[1]), Px(c[2])>> : c \in ClickPoints } \cup { <<ball.x, ball.y>> }

\* GameState::update(current_time) called on the state itself.
GameStateUpdate(d) ==
    /\ ~crashed
    /\ frames < MaxCalls
    /\ LET dt == DeltaTime(last_frame_time, now + d)
           panics == BallUpdatePanics(ball, ballW, ballH)
       IN  /\ ball' = BallUpdate(ball, dt, ballW, ballH)
           /\ crashed' = panics
           /\ ballLast' = [op |-> "update", first |-> (last_frame_time = 0),
                           dt |-> dt, lft |-> last_frame_time,
                           panic |-> panics, trace |-> <<>>,
                           cx |-> 0, cy |-> 0]
    /\ now' = now + d
    /\ frameTime' = now + d
    /\ last_frame_time' = now + d
    /\ frames' = frames + 1
    /\ ballPrev' = ball
    /\ UNCHANGED <<ballW, ballH, pending, running, listeners, starts, leaked,
                   passes>>
    /\ UNCHANGED gameVars

\* GameState::handle_click(x, y) called on the state itself.
HandleClick(p) ==
    /\ ~crashed
    /\ ball' = RedirectTowards(ball, p[1], p[2])
    /\ ballPrev' = ball
    /\ ballLast' = [BallNote("handle_click") EXCEPT
                      !.lft = last_frame_time, !.cx = p[1], !.cy = p[2]]
    /\ UNCHANGED <<last_frame_time, ballW, ballH, now, frameTime, pending,
                   running, listeners, starts, frames, crashed, leaked,
                   passes>>
    /\ UNCHANGED gameVars

\* The state of the other program, untouched by a specification.
GameIdle ==
    /\ sprites = CreateDefaultSprites
    /\ time = 0
    /\ canvasW = Px(800)
    /\ canvasH = Px(600)
    /\ nops = 0
    /\ prev = CreateDefaultSprites
    /\ last = [op |-> "new", dt |-> 0]

BallIdle ==
    /\ ballW = Px(200)
    /\ ballH = Px(150)
    /\ ball = BallNew(Px(100), Px(75))
    /\ ballPrev = BallNew(Px(100), Px(75))
    /\ last_frame_time = 0
    /\ now = 0
    /\ frameTime = 0
    /\ pending = 0
    /\ running = 0
    /\ listeners = 0
    /\ starts = 0
    /\ frames = 0
    /\ crashed = FALSE
    /\ leaked = FALSE
    /\ passes = 0
    /\ ballLast = BallNote("new")

---------------------------------------------------------------------------
(* Specifications *)

Init == GameInit /\ BallIdle

Next ==
    \/ RenderFrame(MaxOps)
    \/ \E dt \in DtSet : UpdateSprites(dt)
    \/ \E dt \in DtSet : AdvanceTime(dt)
    \/ ClearSprites
    \/ \E c \in CanvasSizes : Resize(c)

\* bevy-game under every operation of BevyGame, for a few operations.
Spec == Init /\ [][Next]_vars

\* bevy-game as the page drives it: render_frame on every animation frame
\* and nothing else.
SeekNext == RenderFrame(MaxTicks)

\* What a step of SeekNext does to the frame count, and all that enables it.
FrameShown == nops < MaxTicks /\ nops' = nops + 1

\* The browser keeps delivering animation frames: frames are shown as long
\* as the run goes on.
SeekSpec == Init /\ [][SeekNext]_vars /\ WF_nops(FrameShown)

\* rust-wasm-game.
BallSpecInit == BallInit /\ GameIdle

BallSpecNext ==
    \/ Start
    \/ \E d \in FrameDeltas : BeginFrame(d)
    \/ GameLoop
    \/ \E c \in BallCanvasSizes : BallResize(c)
    \/ \E p \in ClickTargets : Click(p)

BallSpec == BallSpecInit /\ [][BallSpecNext]_vars

\* rust-wasm-game's GameState alone, its methods called one after another.
StateNext ==
    \/ \E d \in FrameDeltas : GameStateUpdate(d)
    \/ \E p \in ClickTargets : HandleClick(p)
    \/ \E c \in BallCanvasSizes : BallResize(c)

StateSpec == BallSpecInit /\ [][StateNext]_vars

---------------------------------------------------------------------------
(* Vocabulary of the properties *)

\* size/2 <= x <= width - size/2 and size/2 <= y <= height - size/2
InBounds(s, cw, ch) ==
    /\ Half(s) <= s.x /\ s.x <= cw - Half(s)
    /\ Half(s) <= s.y /\ s.y <= ch - Half(s)

\* width >= size and height >= size
Fits(s, cw, ch) == cw >= s.size /\ ch >= s.size

\* The last operation advanced the sprites.
Ticked == last.op = "render_frame"
Updated == last.op = "update_sprites"
Advanced == Ticked \/ Updated

Seeking(s) == s.target # None
Respawning(s) == Seeking(s) /\ s.target[1].find_new_target
NonRespawning(s) == Seeking(s) /\ ~s.target[1].find_new_target

\* The target point lies within the rectangle positions are clamped into.
TargetInArena(s, cw, ch) ==
    /\ Seeking(s)
    /\ Half(s) <= s.target[1].x /\ s.target[1].x <= cw - Half(s)
    /\ Half(s) <= s.target[1].y /\ s.target[1].y <= ch - Half(s)

\* A sprite constructed with a target that has none now: it was cleared.
Cleared(ss, i) == ss[i].target = None /\ CreateDefaultSprites[i].target # None

\* The coordinate free mode integrates to, and whether that axis bounces.
IntegratedX(s, dt) == s.x + Move(s.vx, dt)
IntegratedY(s, dt) == s.y + Move(s.vy, dt)
BouncesX(s, dt, cw) == AtEdge(IntegratedX(s, dt), Half(s), cw)
BouncesY(s, dt, ch) == AtEdge(IntegratedY(s, dt), Half(s), ch)

---------------------------------------------------------------------------
(* C1  Boundary containment *)

\* C1 as claimed: after an advance of any entity, free or seeking, by
\* Sprite::update (update_sprites) or by the update loop (render_frame),
\* with width >= size and height >= size the entity lies within
\* [size/2, dim - size/2] on both axes, whatever its position was before.
C1_ContainmentEveryAdvance ==
    Advanced =>
        \A i \in DOMAIN sprites :
            Fits(sprites[i], canvasW, canvasH)
                => InBounds(sprites[i], canvasW, canvasH)

\* C1 amended: the update loop of update_and_render puts every entity, free
\* or seeking, within the bounds; Sprite::update puts every free entity
\* within the bounds, and leaves the position of a seeking entity as it was.
C1_Containment ==
    /\ Ticked =>
         \A i \in DOMAIN sprites :
             Fits(sprites[i], canvasW, canvasH)
                 => InBounds(sprites[i], canvasW, canvasH)
    /\ Updated =>
         \A i \in DOMAIN sprites :
             /\ (~Seeking(prev[i]) /\ Fits(sprites[i], canvasW, canvasH))
                    => InBounds(sprites[i], canvasW, canvasH)
             /\ Seeking(prev[i])
                    => sprites[i].x = prev[i].x /\ sprites[i].y = prev[i].y

\* A frame has brought a seeking and a free sprite, both outside the bounds
\* before it, within them.
C1_Witness ==
    /\ Ticked
    /\ \E i \in DOMAIN sprites :
         /\ Seeking(prev[i])
         /\ Fits(prev[i], canvasW, canvasH)
         /\ ~InBounds(prev[i], canvasW, canvasH)
         /\ InBounds(sprites[i], canvasW, canvasH)
    /\ \E i \in DOMAIN sprites :
         /\ ~Seeking(prev[i])
         /\ Fits(prev[i], canvasW, canvasH)
         /\ ~InBounds(prev[i], canvasW, canvasH)
         /\ InBounds(sprites[i], canvasW, canvasH)

---------------------------------------------------------------------------
(* C2  Seek convergence *)

\* Over one frame the distance of a seeking sprite of prev to its target
\* has not grown.
NotFarther(i) ==
    Dist2(sprites[i], prev[i].target[1]) <= Dist2(prev[i], prev[i].target[1])

\* C2 as claimed: for a seeking entity with a stationary, non-respawning
\* target, frame after frame the distance to the target never grows, and
\* eventually the target becomes none.
C2_ConvergenceEveryTarget ==
    /\ [](Ticked =>
            \A i \in DOMAIN sprites : NonRespawning(prev[i]) => NotFarther(i))
    /\ \A i \in DOMAIN CreateDefaultSprites :
         NonRespawning(sprites[i]) ~> (sprites[i].target = None)

\* C2 amended: the same, for a target point that lies within the rectangle
\* [size/2, width - size/2] x [size/2, height - size/2] the position is
\* clamped into.
C2_Convergence ==
    /\ [](Ticked =>
            \A i \in DOMAIN sprites :
                (NonRespawning(prev[i]) /\ TargetInArena(prev[i], canvasW, canvasH))
                    => NotFarther(i))
    /\ \A i \in DOMAIN CreateDefaultSprites :
         (NonRespawning(sprites[i]) /\ TargetInArena(sprites[i], canvasW, canvasH))
             ~> (sprites[i].target = None)

\* Why the target is never cleared when it lies outside the rectangle: the
\* sprite is pinned.  A frame has left a seeking sprite, not within
\* tolerance, exactly where it was, so every later frame does the same.
C2_Pinned ==
    /\ Ticked
    /\ \E i \in DOMAIN sprites :
         /\ NonRespawning(prev[i])
         /\ ~Reached(prev[i], prev[i].target[1])
         /\ sprites[i].target = prev[i].target
         /\ sprites[i].x = prev[i].x
         /\ sprites[i].y = prev[i].y

\* After a long approach on the page's canvas a frame finds the sprite
\* within tolerance of its non-respawning target and clears it.
C2_Witness ==
    /\ Ticked
    /\ nops > 100
    /\ \E i \in DOMAIN sprites :
         /\ NonRespawning(prev[i])
         /\ TargetInArena(prev[i], canvasW, canvasH)
         /\ Reached(prev[i], prev[i].target[1])
         /\ sprites[i].target = None

---------------------------------------------------------------------------
(* C3  After the target is cleared *)

\* C3 as claimed: once a non-respawning target has been reached and
\* cleared, the entity is stationary: every later frame leaves its position
\* unchanged.
C3_StationaryAfterClear ==
    Ticked =>
        \A i \in DOMAIN sprites :
            Cleared(prev, i)
                => sprites[i].x = prev[i].x /\ sprites[i].y = prev[i].y

\* C3 amended: the frame that clears the target leaves the position
\* unchanged (but for the clamp into the bounds); on every later frame the
\* entity, having no target, moves as a free entity: each coordinate is
\* integrated with the velocity the sprite was constructed with, up to its
\* sign, and clamped, and the velocity of an axis at an edge is negated.
C3_FreeAfterClear ==
    Ticked =>
        \A i \in DOMAIN sprites :
            /\ (NonRespawning(prev[i]) /\ Reached(prev[i], prev[i].target[1]))
                 => /\ sprites[i].target = None
                    /\ sprites[i].x = MaxMin(prev[i].x, Half(prev[i]),
                                             canvasW - Half(prev[i]))
                    /\ sprites[i].y = MaxMin(prev[i].y, Half(prev[i]),
                                             canvasH - Half(prev[i]))
            /\ Cleared(prev, i)
                 => /\ sprites[i].target = None
                    /\ sprites[i].x = MaxMin(IntegratedX(prev[i], FrameDt),
                                             Half(prev[i]), canvasW - Half(prev[i]))
                    /\ sprites[i].y = MaxMin(IntegratedY(prev[i], FrameDt),
                                             Half(prev[i]), canvasH - Half(prev[i]))
                    /\ sprites[i].vx =
                         IF BouncesX(prev[i], FrameDt, canvasW)
                         THEN -prev[i].vx ELSE prev[i].vx
                    /\ sprites[i].vy =
                         IF BouncesY(prev[i], FrameDt, canvasH)
                         THEN -prev[i].vy ELSE prev[i].vy
                    /\ Abs(prev[i].vx) = Abs(CreateDefaultSprites[i].vx)
                    /\ Abs(prev[i].vy) = Abs(CreateDefaultSprites[i].vy)

\* A frame has moved a sprite whose target was cleared before it.
C3_Witness ==
    /\ Ticked
    /\ \E i \in DOMAIN sprites :
         /\ Cleared(prev, i)
         /\ InBounds(prev[i], canvasW, canvasH)
         /\ sprites[i].x # prev[i].x
         /\ sprites[i].y # prev[i].y

---------------------------------------------------------------------------
(* C4  Rotation *)

\* C4 as claimed: on every advance and for every entity, whatever its mode
\* (free, seeking, reaching a respawning target, reaching a non-respawning
\* target), rotation_after = rotation_before + 2.0 * dt.
C4_RotationEveryAdvance ==
    Advanced =>
        \A i \in DOMAIN sprites :
            sprites[i].rotation = prev[i].rotation + RotationRate * last.dt

---------------------------------------------------------------------------
(* C5  Zero dt *)

\* C5 as claimed: for an entity within the bounds, on a boundary included,
\* an advance with dt = 0 leaves x, y, vx, vy and rotation as they were.
C5_ZeroDtIdempotent ==
    (Updated /\ last.dt = 0) =>
        \A i \in DOMAIN sprites :
            InBounds(prev[i], canvasW, canvasH) =>
                /\ sprites[i].x = prev[i].x
                /\ sprites[i].y = prev[i].y
                /\ sprites[i].vx = prev[i].vx
                /\ sprites[i].vy = prev[i].vy
                /\ sprites[i].rotation = prev[i].rotation

---------------------------------------------------------------------------
(* C6  Energy conservation on bounce *)

\* C6: in free mode an axis that bounces has its velocity component exactly
\* negated, an axis that does not keeps it; so over any sequence of
\* operations |vx| and |vy| are those the sprite was constructed with.
C6_EnergyConserved ==
    /\ Advanced =>
         \A i \in DOMAIN sprites :
             ~Seeking(prev[i]) =>
                 /\ sprites[i].vx =
                      IF BouncesX(prev[i], last.dt, canvasW)
                      THEN -prev[i].vx ELSE prev[i].vx
                 /\ sprites[i].vy =
                      IF BouncesY(prev[i], last.dt, canvasH)
                      THEN -prev[i].vy ELSE prev[i].vy
    /\ \A i \in DOMAIN sprites :
         /\ Abs(sprites[i].vx) = Abs(CreateDefaultSprites[i].vx)
         /\ Abs(sprites[i].vy) = Abs(CreateDefaultSprites[i].vy)

\* A free sprite has bounced on both axes, after an earlier bounce.
C6_Witness ==
    /\ Advanced
    /\ \E i \in DOMAIN sprites :
         /\ ~Seeking(prev[i])
         /\ BouncesX(prev[i], last.dt, canvasW)
         /\ BouncesY(prev[i], last.dt, canvasH)
         /\ prev[i].vy # CreateDefaultSprites[i].vy
         /\ sprites[i].vx = -prev[i].vx
         /\ sprites[i].vx # 0

---------------------------------------------------------------------------
(* C7  Respawn *)

\* C7: a frame that finds a seeking entity with find_new_target within
\* tolerance of its target gives it a target with find_new_target, whose
\* point, for every value of the random source and every canvas with
\* width >= size and height >= size, lies within
\* [size/2, width - size/2] x [size/2, height - size/2].
C7_Respawn ==
    Ticked =>
        \A i \in DOMAIN sprites :
            (Respawning(prev[i]) /\ Reached(prev[i], prev[i].target[1])) =>
                /\ Respawning(sprites[i])
                /\ Fits(sprites[i], canvasW, canvasH)
                     => TargetInArena(sprites[i], canvasW, canvasH)

\* A frame has replaced a reached target by another point.
C7_Witness ==
    /\ Ticked
    /\ \E i \in DOMAIN sprites :
         /\ Respawning(prev[i])
         /\ Reached(prev[i], prev[i].target[1])
         /\ Respawning(sprites[i])
         /\ sprites[i].target # prev[i].target
         /\ sprites[i].target[1].x > canvasW - sprites[i].size

---------------------------------------------------------------------------
(* C8  The first tick *)

\* The last step was an update pass that found last_frame_time at 0.0.
FirstTick == ballLast.op = "update" /\ ballLast.first

\* C8 as claimed: the first tick after the clock is reset only records the
\* timestamp: the ball's position and velocity are as before the tick.
C8_FirstTickNoMotion ==
    FirstTick =>
        /\ last_frame_time = frameTime
        /\ ball.x = ballPrev.x
        /\ ball.y = ballPrev.y
        /\ ball.velocity_x = ballPrev.velocity_x
        /\ ball.velocity_y = ballPrev.velocity_y

\* C8 amended: the first tick records the timestamp and advances the ball
\* by the fixed fallback step of 0.016 s, whatever the timestamp is: each
\* coordinate is integrated over 16 ms and, on a canvas that holds the
\* ball, clamped into the canvas, and the velocity of an axis that passes a
\* wall is negated.
C8_FirstTickFallback ==
    FirstTick =>
        LET x1 == ballPrev.x + BallMove(ballPrev.velocity_x, FallbackDt)
            y1 == ballPrev.y + BallMove(ballPrev.velocity_y, FallbackDt)
        IN  /\ last_frame_time = frameTime
            /\ ~ballLast.panic =>
                 /\ ball.x =
                      MaxMin(x1, ballPrev.radius, ballW - ballPrev.radius)
                 /\ ball.y =
                      MaxMin(y1, ballPrev.radius, ballH - ballPrev.radius)
            /\ ball.velocity_x =
                 IF x1 + ballPrev.radius > ballW \/ x1 - ballPrev.radius < 0
                 THEN -ballPrev.velocity_x ELSE ballPrev.velocity_x
            /\ ball.velocity_y =
                 IF y1 + ballPrev.radius > ballH \/ y1 - ballPrev.radius < 0
                 THEN -ballPrev.velocity_y ELSE ballPrev.velocity_y

\* The first tick has moved the ball.
C8_Witness ==
    /\ FirstTick
    /\ frameTime # FallbackDt
    /\ ball.x # ballPrev.x
    /\ ball.y # ballPrev.y

---------------------------------------------------------------------------
(* C9  start() while running *)

\* C9 as claimed: a call of start while the loop is running changes
\* nothing: after any number of calls there is one click listener and one
\* tick chain, and a display frame runs one update pass.
C9_StartOnce ==
    starts >= 1 =>
        /\ listeners = 1
        /\ pending + running = 1
        /\ passes <= 1

---------------------------------------------------------------------------
(* C11  A failing tick and the scheduler *)

\* C11 as claimed: a failure of the render or of the update during a tick
\* never leaves the scheduler wedged: in no reachable state has the loop
\* been started while no callback is being called and no animation frame is
\* requested.
C11_NeverWedged == ~(starts >= 1 /\ running = 0 /\ pending = 0)

---------------------------------------------------------------------------
(* C12  The motion update under a change of the bounds *)

\* The canvas holds the ball: width and height are at least its diameter.
BallFits(b, cw, ch) == cw >= 2 * b.radius /\ ch >= 2 * b.radius

\* radius <= x <= width - radius and radius <= y <= height - radius
BallInBounds(b, cw, ch) ==
    /\ b.radius <= b.x /\ b.x <= cw - b.radius
    /\ b.radius <= b.y /\ b.y <= ch - b.radius

\* C12 as claimed: whatever the width and the height have become between
\* two ticks, smaller than the diameter included, the update of a tick
\* returns without a panic, and a tick on bounds that are at least the
\* diameter leaves the ball inside them.
C12_UpdateNeverPanics ==
    ballLast.op = "update" =>
        /\ ~ballLast.panic
        /\ BallFits(ball, ballW, ballH) => BallInBounds(ball, ballW, ballH)

---------------------------------------------------------------------------
(* C13  The bounce rule of free mode *)

---------------------------------------------------------------------------
(* C14  Free-mode integration away from the walls *)

\* The integrated position of a free sprite is strictly inside the bounds.
FreeInside(s, dt, cw, ch) ==
    /\ ~Seeking(s)
    /\ Half(s) < IntegratedX(s, dt) /\ IntegratedX(s, dt) < cw - Half(s)
    /\ Half(s) < IntegratedY(s, dt) /\ IntegratedY(s, dt) < ch - Half(s)

\* n calls of Sprite::update in a row.
RECURSIVE Updates(_, _, _, _, _)
Updates(s, n, dt, cw, ch) ==
    IF n = 0 THEN s
    ELSE Updates(SpriteUpdate(s, dt, cw, ch), n - 1, dt, cw, ch)

\* Each of n calls in a row integrates to a position strictly inside.
FreeInsideFor(s, n, dt, cw, ch) ==
    \A k \in 0..(n - 1) : FreeInside(Updates(s, k, dt, cw, ch), dt, cw, ch)

\* The pairs <<width, height>> of CanvasSizes in units.
CanvasUnits == { <<Px(c[1]), Px(c[2])>> : c \in CanvasSizes }

---------------------------------------------------------------------------
(* C15  The mode transitions of a tick *)

\* C15: over a frame the only change of mode is from seeking to no target,
\* and only for a target that does not respawn and is within the tolerance;
\* a sprite whose target respawns has a respawning target after the frame;
\* a sprite with no target has none after the frame.
C15_ModeTransitions ==
    Ticked =>
        \A i \in DOMAIN sprites :
            /\ Respawning(prev[i]) => Respawning(sprites[i])
            /\ ~Seeking(prev[i]) => ~Seeking(sprites[i])
            /\ (Seeking(prev[i]) /\ ~Seeking(sprites[i])) =>
                   /\ NonRespawning(prev[i])
                   /\ Dist2(prev[i], prev[i].target[1])
                          <= Px(tolerance) * Px(tolerance)
            /\ (NonRespawning(prev[i]) /\ Seeking(sprites[i])) =>
                   sprites[i].target = prev[i].target

\* A frame on which one sprite, within the tolerance of its respawning
\* target, is given a new target, while the sprite whose target did not
\* respawn has lost it on an earlier frame and the free sprite is free.
C15_Witness ==
    /\ Ticked
    /\ \E i \in DOMAIN sprites :
         /\ Respawning(prev[i])
         /\ Reached(prev[i], prev[i].target[1])
         /\ Respawning(sprites[i])
    /\ \E i \in DOMAIN sprites : Cleared(prev, i) /\ Cleared(sprites, i)
    /\ \E i \in DOMAIN sprites :
         ~Seeking(prev[i]) /\ ~Cleared(prev, i) /\ ~Seeking(sprites[i])

---------------------------------------------------------------------------
(* C16  The step of a tick after the first *)

\* C16: an update pass that is not the first takes the step timestamp -
\* last_frame_time (ms; / 1000 in seconds), never negative on the host's
\* non-decreasing timestamps, and integrates the ball over it; every pass
\* leaves the timestamp in last_frame_time; only the first pass of the
\* first frame finds last_frame_time at 0.0.
C16_DeltaTime ==
    ballLast.op = "update" =>
        /\ last_frame_time = frameTime
        /\ ballLast.first => frames = 1 /\ passes = 1
        /\ ~ballLast.first =>
             LET dt == frameTime - ballLast.lft
                 x1 == ballPrev.x + BallMove(ballPrev.velocity_x, dt)
                 y1 == ballPrev.y + BallMove(ballPrev.velocity_y, dt)
             IN  /\ ballLast.dt = dt
                 /\ dt >= 0
                 /\ ~ballLast.panic =>
                      /\ ball.x = MaxMin(x1, ballPrev.radius,
                                         ballW - ballPrev.radius)
                      /\ ball.y = MaxMin(y1, ballPrev.radius,
                                         ballH - ballPrev.radius)

\* A later frame has come 32 ms after the one before it, and its update
\* pass has moved the ball.
C16_Witness ==
    /\ ballLast.op = "update"
    /\ ~ballLast.first
    /\ ~ballLast.panic
    /\ frameTime - ballLast.lft = 32
    /\ ball.x # ballPrev.x
    /\ ball.y # ballPrev.y

---------------------------------------------------------------------------
(* C17  A tick is applied whole and in order *)

\* The steps of update_and_render over n sprites, in the order they run.
FrameTrace(n) ==
    << <<"clear_canvas", 0>> >>
        \o [i \in 1..n |-> <<"update", i>>]
        \o [i \in 1..n |-> <<"render_sprite", i>>]
        \o << <<"render_ui", 0>> >>

\* The number of times step e occurs in trace t.
Count(t, e) == Cardinality({k \in DOMAIN t : t[k] = e})

\* Every occurrence of a in t comes before every occurrence of b.
Precedes(t, a, b) ==
    \A j \in DOMAIN t, k \in DOMAIN t : (t[j] = a /\ t[k] = b) => j < k

\* C17 as claimed: a tick is applied whole and in order: a call of the
\* game_loop closure runs one update of the ball, then one render, and
\* only then one request of the next animation frame; a frame of
\* update_and_render updates every sprite before it renders any, each once.
C17_TickWhole ==
    /\ ballLast.op = "update" =>
         /\ Count(ballLast.trace, "ball.update") = 1
         /\ Count(ballLast.trace, "ball.render") = 1
         /\ Count(ballLast.trace, "request_animation_frame") = 1
         /\ Precedes(ballLast.trace, "ball.update", "ball.render")
         /\ Precedes(ballLast.trace, "ball.render", "request_animation_frame")
    /\ Ticked =>
         \A i \in DOMAIN prev, j \in DOMAIN prev :
             /\ Count(FrameTrace(Len(prev)), <<"update", i>>) = 1
             /\ Count(FrameTrace(Len(prev)), <<"render_sprite", i>>) = 1
             /\ Precedes(FrameTrace(Len(prev)),
                         <<"update", i>>, <<"render_sprite", j>>)

---------------------------------------------------------------------------
(* C18  One chain of ticks after one start *)

\* C18 as claimed: after a single call of start the loop is perpetual and
\* its ticks do not overlap: at every moment one callback is requested or
\* one is being called, a frame runs one update pass, and every call of the
\* closure makes one request of the next frame.
C18_OneChain ==
    starts = 1 =>
        /\ pending + running = 1
        /\ passes <= 1
        /\ ballLast.op = "update" =>
             Count(ballLast.trace, "request_animation_frame") = 1

---------------------------------------------------------------------------
(* C19  Seeking and the velocity *)

\* C19: a frame leaves the velocity of every sprite that had a target
\* before it as it was, whether the frame moved the sprite toward the
\* target, gave it a new target or cleared the target.
C19_SeekKeepsVelocity ==
    Ticked =>
        \A i \in DOMAIN sprites :
            Seeking(prev[i]) =>
                /\ sprites[i].vx = prev[i].vx
                /\ sprites[i].vy = prev[i].vy

\* A frame has cleared the target of one sprite and moved another sprite
\* toward its target; both have the velocity of their construction.
C19_Witness ==
    /\ Ticked
    /\ \E i \in DOMAIN sprites :
         /\ NonRespawning(prev[i])
         /\ ~Seeking(sprites[i])
         /\ sprites[i].vx = CreateDefaultSprites[i].vx
         /\ sprites[i].vx # 0
    /\ \E i \in DOMAIN sprites :
         /\ Seeking(prev[i])
         /\ sprites[i].target = prev[i].target
         /\ sprites[i].x # prev[i].x
         /\ sprites[i].vy = CreateDefaultSprites[i].vy
         /\ sprites[i].vy # 0

---------------------------------------------------------------------------
(* C20  Simulated time *)

\* What one operation does to the time.
TimeStep ==
    /\ last'.op = "render_frame" => time' = time + FrameDt
    /\ last'.op = "advance_time" => time' = time + last'.dt
    /\ last'.op \notin {"render_frame", "advance_time"} => time' = time
    /\ time' >= time

\* C20: the time starts at 0; render_frame adds the fixed step of 0.016 s
\* to it, advance_time(dt) adds dt, update_sprites and every other
\* operation leave it as it is; it never decreases.
C20_Accumulation == time = 0 /\ [][TimeStep]_vars

\* Two frames and an advance_time of 0.1 s, in some order with the advance
\* last: the time is 0.132 s.
C20_Witness ==
    /\ last.op = "advance_time"
    /\ last.dt = 100
    /\ time = 2 * FrameDt + last.dt

---------------------------------------------------------------------------
(* C21  The two update paths *)

\* Sprite i is, after a frame, what Sprite::update makes of it, and after
\* an update_sprites of 0.016 s, what the update loop makes of it.
PathsAgree(i) ==
    /\ Ticked =>
         sprites[i] = SpriteUpdate(prev[i], FrameDt, canvasW, canvasH)
    /\ (Updated /\ last.dt = FrameDt) =>
         \E rx \in RandSet, ry \in RandSet :
             sprites[i] = TickSprite(prev[i], canvasW, canvasH, rx, ry)

\* C21 as claimed: for every sprite, with or without a target, the same
\* bounds and dt = 0.016, update_sprites and the update loop of a frame
\* leave the same position, velocity, rotation and target.
C21_PathsAgreeEverySprite == \A i \in DOMAIN sprites : PathsAgree(i)

\* C21 amended: the two paths agree on every sprite that has no target.
C21_PathsAgreeFree ==
    \A i \in DOMAIN sprites : ~Seeking(prev[i]) => PathsAgree(i)

\* An update_sprites of 0.016 s has brought a free sprite from outside the
\* bounds to a wall and negated its velocity, as a frame would have.
C21_Witness ==
    /\ Updated
    /\ last.dt = FrameDt
    /\ \E i \in DOMAIN sprites :
         /\ ~Seeking(prev[i])
         /\ ~InBounds(prev[i], canvasW, canvasH)
         /\ InBounds(sprites[i], canvasW, canvasH)
         /\ sprites[i].vy = -prev[i].vy
         /\ sprites[i] = TickSprite(prev[i], canvasW, canvasH, 0, 0)

---------------------------------------------------------------------------
(* C22  A click and the borrows of the game state *)

\* C22 as claimed: a click never meets a borrow conflict: the closure's
\* borrow_mut is not attempted while another borrow of the RefCell is
\* outstanding, so every click completes and redirects the ball toward the
\* point clicked.
C22_ClickCompletes ==
    ballLast.op = "click" =>
        /\ ~ballLast.panic
        /\ ball = RedirectTowards(ballPrev, ballLast.cx, ballLast.cy)

---------------------------------------------------------------------------
(* C23  The direction of a bounce *)

\* C23 as claimed: when a free-mode update negates the velocity of an axis,
\* the component points away from the wall that was met: it is positive
\* after the low wall at size/2 and negative after the high wall at
\* dim - size/2, whatever the position, the sign of the velocity and the
\* step were, after a change of the bounds and a step of 0 included.
C23_BounceInward ==
    Advanced =>
        \A i \in DOMAIN sprites :
            (~Seeking(prev[i]) /\ Fits(prev[i], canvasW, canvasH)) =>
                LET lo == Half(prev[i])
                    hx == canvasW - Half(prev[i])
                    hy == canvasH - Half(prev[i])
                    x1 == IntegratedX(prev[i], last.dt)
                    y1 == IntegratedY(prev[i], last.dt)
                IN  /\ (x1 <= lo /\ x1 < hx /\ prev[i].vx # 0)
                           => sprites[i].vx > 0
                    /\ (x1 >= hx /\ x1 > lo /\ prev[i].vx # 0)
                           => sprites[i].vx < 0
                    /\ (y1 <= lo /\ y1 < hy /\ prev[i].vy # 0)
                           => sprites[i].vy > 0
                    /\ (y1 >= hy /\ y1 > lo /\ prev[i].vy # 0)
                           => sprites[i].vy < 0

---------------------------------------------------------------------------
(* C24  The ball stays on the canvas *)

\* C24: whatever updates, clicks and resizes came before, an update on a
\* canvas at least a diameter wide and high leaves the ball with
\* radius <= x <= width - radius and radius <= y <= height - radius, and an
\* update leaves the magnitude of each velocity component as it was.
C24_BallContainment ==
    ballLast.op = "update" =>
        /\ BallFits(ball, ballW, ballH) => BallInBounds(ball, ballW, ballH)
        /\ Abs(ball.velocity_x) = Abs(ballPrev.velocity_x)
        /\ Abs(ball.velocity_y) = Abs(ballPrev.velocity_y)

\* A ball redirected by a click and left outside a canvas made smaller has
\* been brought back onto the canvas by an update, its velocity negated.
C24_Witness ==
    /\ ballLast.op = "update"
    /\ ~ballLast.panic
    /\ BallFits(ball, ballW, ballH)
    /\ ~BallInBounds(ballPrev, ballW, ballH)
    /\ BallInBounds(ball, ballW, ballH)
    /\ ball.velocity_x = -ballPrev.velocity_x
    /\ Abs(ballPrev.velocity_x) # Abs(BallNew(0, 0).velocity_x)

---------------------------------------------------------------------------
(* C25  What a click changes *)

Sign(a) == IF a > 0 THEN 1 ELSE IF a < 0 THEN -1 ELSE 0

\* C25: handle_click leaves the ball's position and radius and
\* last_frame_time as they were; a click on the ball's own position leaves
\* the velocity too; any other click gives each velocity component the sign
\* of the difference from the ball to the point clicked.
C25_ClickOnlyVelocity ==
    ballLast.op = "handle_click" =>
        /\ ball.x = ballPrev.x
        /\ ball.y = ballPrev.y
        /\ ball.radius = ballPrev.radius
        /\ last_frame_time = ballLast.lft
        /\ IF ballLast.cx = ballPrev.x /\ ballLast.cy = ballPrev.y
           THEN /\ ball.velocity_x = ballPrev.velocity_x
                /\ ball.velocity_y = ballPrev.velocity_y
           ELSE /\ Sign(ball.velocity_x) = Sign(ballLast.cx - ballPrev.x)
                /\ Sign(ball.velocity_y) = Sign(ballLast.cy - ballPrev.y)

\* After an update, a click to the lower left of the ball has turned a
\* velocity that pointed right and down to the left and further down.
C25_Witness ==
    /\ ballLast.op = "handle_click"
    /\ frames >= 1
    /\ ballLast.cx < ballPrev.x
    /\ ballLast.cy > ballPrev.y
    /\ ballPrev.velocity_x > 0
    /\ ball.velocity_x < 0
    /\ ball.velocity_y > ballPrev.velocity_y

====
